---- MODULE Spec2Model ----
(***************************************************************************)
(* The boolean GJK intersection test of src/src/lib.rs, in exact integer   *)
(* arithmetic.  A Vec3 is a triple <<x, y, z>>; a hull is a sequence of    *)
(* Vec3.  One behaviour is one invocation bgjk(hull1, hull2): the local    *)
(* variables of bgjk are the state, one action per step of its body.       *)
(***************************************************************************)
EXTENDS Integers, Sequences, FiniteSets, TLC

(* ------------------------------ bounds --------------------------------- *)

\* Len(hull1) + Len(hull2) of the invocations explored.
MaxPoints == 5

\* Length of the hull passed as both arguments of one invocation.
MaxSame == 4

\* Iterations of the main loop the function bgjk below unrolls before it
\* reports that the loop has not returned.
MaxIter == 12

\* Len(hull1) + Len(hull2) of the invocations that are compared with the
\* invocations on rearranged or extended hulls.
MaxRelated == 4

\* The points hulls are built from: the origin, a segment through the origin
\* ((-1,1,-1) .. (1,-1,1)) and two points off that line.
Points == { <<0, 0, 0>>, <<-1, 1, -1>>, <<1, -1, 1>>, <<0, 1, 0>>, <<1, 0, 0>> }

(* --------------------------- vector algebra ---------------------------- *)

default == <<0, 0, 0>>

ones == <<1, 1, 1>>

sub(l, r) == <<l[1] - r[1], l[2] - r[2], l[3] - r[3]>>

dot(l, r) == l[1] * r[1] + l[2] * r[2] + l[3] * r[3]

neg(v) == <<-v[1], -v[2], -v[3]>>

cross(a, b) ==
  <<a[2] * b[3] - a[3] * b[2],
    a[3] * b[1] - a[1] * b[3],
    a[1] * b[2] - a[2] * b[1]>>

cross3(a, b, c) == cross(cross(a, b), c)

dcross3(a, b) == cross3(a, b, a)

(* --------------------------- support mapping --------------------------- *)

\* Option<f32>: None is <<>>, Some(v) is <<v>>.
None == <<>>

Some(v) == <<v>>

\* The body of farthest's for loop from vertex i on, with the running
\* (max, max_vertex).
RECURSIVE farthestFrom(_, _, _, _, _)
farthestFrom(vertices, direction, i, max, max_vertex) ==
  IF i > Len(vertices) THEN max_vertex
  ELSE LET vertex == vertices[i]
           current == dot(vertex, direction)
       IN  IF max # None
           THEN IF current > max[1]
                THEN farthestFrom(vertices, direction, i + 1, Some(current), vertex)
                ELSE farthestFrom(vertices, direction, i + 1, max, max_vertex)
           ELSE farthestFrom(vertices, direction, i + 1, Some(current), vertex)

\* farthest whose answer for an empty slice is (1,1,1).
farthest_empty_ones(vertices, direction) ==
  farthestFrom(vertices, direction, 1, None, ones)

\* farthest with the comparison reversed: the least vertex along direction.
farthest_least(vertices, direction) ==
  neg(farthestFrom([i \in 1..Len(vertices) |-> neg(vertices[i])], direction, 1, None, default))

\* farthest with the comparison `>=`: the last of the farthest vertices.
farthest_ge(vertices, direction) ==
  farthestFrom([i \in 1..Len(vertices) |-> vertices[Len(vertices) + 1 - i]],
               direction, 1, None, default)

\* farthest whose comparison always succeeds: the last vertex.
farthest_last(vertices, direction) ==
  IF vertices = <<>> THEN default ELSE vertices[Len(vertices)]

\* farthest whose loop stops after the first vertex.
farthest_first(vertices, direction) ==
  IF vertices = <<>> THEN default ELSE vertices[1]

farthest(vertices, direction) ==
  farthestFrom(vertices, direction, 1, None, default)

\* support that queries both hulls along the same direction.
support_same_direction(vertices_a, vertices_b, direction) ==
  sub(farthest(vertices_a, direction), farthest(vertices_b, direction))

\* support that ignores the second hull.
support_first_only(vertices_a, vertices_b, direction) ==
  farthest(vertices_a, direction)

support(vertices_a, vertices_b, direction) ==
  sub(farthest(vertices_a, direction), farthest(vertices_b, neg(direction)))

(* ------------------------- simplex evolution --------------------------- *)

\* The locals of bgjk that simplex receives by mutable reference.
Locals(a, b, c, d, s, width) ==
  [ap |-> a, bp |-> b, cp |-> c, dp |-> d, sp |-> s, w |-> width]

\* check_tetra whose last branch sets the width back to 2 as well.
check_tetra_collapse(te, ao, ab, ac, abc) ==
  LET ab_abc == cross(ab, abc)
  IN  IF dot(ab_abc, ao) > 0
      THEN [te EXCEPT !.cp = te.bp, !.bp = te.ap, !.sp = dcross3(ab, ao), !.w = 2]
      ELSE LET acp == cross(abc, ac)
           IN  IF dot(acp, ao) > 0
               THEN [te EXCEPT !.bp = te.ap, !.sp = dcross3(ac, ao), !.w = 2]
               ELSE [te EXCEPT !.dp = te.cp, !.cp = te.bp, !.bp = te.ap,
                               !.sp = abc, !.w = 2]

\* check_tetra(Tetra(ap, bp, cp, dp), sp, w, ao, ab, ac, abc): te.0 is ap,
\* te.1 is bp, te.2 is cp, te.3 is dp.  The value is the locals it leaves.
check_tetra(te, ao, ab, ac, abc) ==
  LET ab_abc == cross(ab, abc)
  IN  IF dot(ab_abc, ao) > 0
      THEN [te EXCEPT !.cp = te.bp, !.bp = te.ap, !.sp = dcross3(ab, ao), !.w = 2]
      ELSE LET acp == cross(abc, ac)
           IN  IF dot(acp, ao) > 0
               THEN [te EXCEPT !.bp = te.ap, !.sp = dcross3(ac, ao), !.w = 2]
               ELSE [te EXCEPT !.dp = te.cp, !.cp = te.bp, !.bp = te.ap,
                               !.sp = abc, !.w = 3]

\* The arm `2 =>` that promotes to width 4.
simplex2_width4(l) ==
  LET ao == neg(l.ap)
      ab == sub(l.bp, l.ap)
      ac == sub(l.cp, l.ap)
      abc == cross(ab, ac)
      ab_abc == cross(ab, abc)
  IN  IF dot(ab_abc, ao) > 0
      THEN [l EXCEPT !.cp = l.bp, !.bp = l.ap, !.sp = dcross3(ab, ao)]
      ELSE LET abc_ac == cross(abc, ac)
           IN  IF dot(abc_ac, ao) > 0
               THEN [l EXCEPT !.bp = l.ap, !.sp = dcross3(ac, ao)]
               ELSE IF dot(abc, ao) > 0
                    THEN [l EXCEPT !.dp = l.cp, !.cp = l.bp, !.bp = l.ap,
                                   !.sp = abc, !.w = 4]
                    ELSE [l EXCEPT !.dp = l.bp, !.bp = l.ap,
                                   !.sp = neg(abc), !.w = 4]

\* The arm `2 =>` that promotes with d = c, c = b, b = a also when
\* abc.dot(ao) <= 0.
simplex2_one_order(l) ==
  LET ao == neg(l.ap)
      ab == sub(l.bp, l.ap)
      ac == sub(l.cp, l.ap)
      abc == cross(ab, ac)
      ab_abc == cross(ab, abc)
  IN  IF dot(ab_abc, ao) > 0
      THEN [l EXCEPT !.cp = l.bp, !.bp = l.ap, !.sp = dcross3(ab, ao)]
      ELSE LET abc_ac == cross(abc, ac)
           IN  IF dot(abc_ac, ao) > 0
               THEN [l EXCEPT !.bp = l.ap, !.sp = dcross3(ac, ao)]
               ELSE [l EXCEPT !.dp = l.cp, !.cp = l.bp, !.bp = l.ap,
                              !.sp = IF dot(abc, ao) > 0 THEN abc ELSE neg(abc),
                              !.w = 3]

\* The arm `2 =>` of simplex.
simplex2(l) ==
  LET ao == neg(l.ap)
      ab == sub(l.bp, l.ap)
      ac == sub(l.cp, l.ap)
      abc == cross(ab, ac)
      ab_abc == cross(ab, abc)
  IN  IF dot(ab_abc, ao) > 0
      THEN [l EXCEPT !.cp = l.bp, !.bp = l.ap, !.sp = dcross3(ab, ao)]
      ELSE LET abc_ac == cross(abc, ac)
           IN  IF dot(abc_ac, ao) > 0
               THEN [l EXCEPT !.bp = l.ap, !.sp = dcross3(ac, ao)]
               ELSE IF dot(abc, ao) > 0
                    THEN [l EXCEPT !.dp = l.cp, !.cp = l.bp, !.bp = l.ap,
                                   !.sp = abc, !.w = 3]
                    ELSE [l EXCEPT !.dp = l.bp, !.bp = l.ap,
                                   !.sp = neg(abc), !.w = 3]

\* The arm `3 =>` deciding each face by the test of the arm `2 =>`,
\* cross(ab, abc).dot(ao) > 0, instead of abc.dot(ao) > 0.
simplex3_straddle(l) ==
  LET ao == neg(l.ap)
      ab == sub(l.bp, l.ap)
      ac == sub(l.cp, l.ap)
      abc == cross(ab, ac)
  IN  IF dot(cross(ab, abc), ao) > 0
      THEN [ret |-> FALSE, out |-> check_tetra(l, ao, ab, ac, abc)]
      ELSE LET ad == sub(l.dp, l.ap)
               acd == cross(ac, ad)
           IN  IF dot(cross(ac, acd), ao) > 0
               THEN [ret |-> FALSE,
                     out |-> check_tetra([l EXCEPT !.bp = l.cp, !.cp = l.dp],
                                         ao, ac, ad, acd)]
               ELSE LET adb == cross(ad, ab)
                    IN  IF dot(cross(ad, adb), ao) > 0
                        THEN [ret |-> FALSE,
                              out |-> check_tetra([l EXCEPT !.cp = l.bp, !.bp = l.dp],
                                                  ao, ad, ab, adb)]
                        ELSE [ret |-> TRUE, out |-> l]

\* The arm `3 =>` of simplex: [ret, out], the value returned and the locals
\* it leaves.
simplex3(l) ==
  LET ao == neg(l.ap)
      ab == sub(l.bp, l.ap)
      ac == sub(l.cp, l.ap)
      abc == cross(ab, ac)
  IN  IF dot(abc, ao) > 0
      THEN [ret |-> FALSE, out |-> check_tetra(l, ao, ab, ac, abc)]
      ELSE LET ad == sub(l.dp, l.ap)
               acd == cross(ac, ad)
           IN  IF dot(acd, ao) > 0
               THEN [ret |-> FALSE,
                     out |-> check_tetra([l EXCEPT !.bp = l.cp, !.cp = l.dp],
                                         ao, ac, ad, acd)]
               ELSE LET adb == cross(ad, ab)
                    IN  IF dot(adb, ao) > 0
                        THEN [ret |-> FALSE,
                              out |-> check_tetra([l EXCEPT !.cp = l.bp, !.bp = l.dp],
                                                  ao, ad, ab, adb)]
                        ELSE [ret |-> TRUE, out |-> l]

\* simplex(ap, bp, cp, dp, sp, w): the match on *w.
simplex(l) ==
  CASE l.w = 2 -> [ret |-> FALSE, out |-> simplex2(l)]
    [] l.w = 3 -> simplex3(l)
    [] OTHER   -> [ret |-> FALSE, out |-> l]

(* ------------------------------ driver --------------------------------- *)

\* w before `let mut w = 2` has run: the variable is not yet declared.
Undeclared == 0

\* bgjk_start whose first separating-axis test never returns.
bgjk_start_no_exit(hull1, hull2) ==
  LET cp1 == support(hull1, hull2, ones)
      bp1 == support(hull1, hull2, neg(cp1))
  IN  [done |-> FALSE, ret |-> FALSE,
       l |-> Locals(default, bp1, cp1, default,
                    dcross3(sub(cp1, bp1), neg(bp1)), 2)]

\* bgjk_start whose first separating-axis test is `<= 0.0`.
bgjk_start_exit_le(hull1, hull2) ==
  LET cp1 == support(hull1, hull2, ones)
      sp1 == neg(cp1)
      bp1 == support(hull1, hull2, sp1)
  IN  IF dot(bp1, sp1) <= 0
      THEN [done |-> TRUE, ret |-> FALSE,
            l |-> Locals(default, bp1, cp1, default, sp1, Undeclared)]
      ELSE [done |-> FALSE, ret |-> FALSE,
            l |-> Locals(default, bp1, cp1, default,
                         dcross3(sub(cp1, bp1), neg(bp1)), 2)]

\* bgjk_start whose first direction is dcross3(cp - bp, bp): away from the
\* origin.
bgjk_start_away(hull1, hull2) ==
  LET cp1 == support(hull1, hull2, ones)
      sp1 == neg(cp1)
      bp1 == support(hull1, hull2, sp1)
  IN  IF dot(bp1, sp1) < 0
      THEN [done |-> TRUE, ret |-> FALSE,
            l |-> Locals(default, bp1, cp1, default, sp1, Undeclared)]
      ELSE [done |-> FALSE, ret |-> FALSE,
            l |-> Locals(default, bp1, cp1, default,
                         dcross3(sub(cp1, bp1), bp1), 2)]

\* bgjk up to the loop: the two initial support queries, the first
\* separating-axis test, the first direction and width.  `done` says that
\* bgjk has returned, `ret` what it returned, `l` the locals.
bgjk_start(hull1, hull2) ==
  LET sp0 == ones
      cp1 == support(hull1, hull2, sp0)
      sp1 == neg(cp1)
      bp1 == support(hull1, hull2, sp1)
  IN  IF dot(bp1, sp1) < 0
      THEN [done |-> TRUE, ret |-> FALSE,
            l |-> Locals(default, bp1, cp1, default, sp1, Undeclared)]
      ELSE [done |-> FALSE, ret |-> FALSE,
            l |-> Locals(default, bp1, cp1, default,
                         dcross3(sub(cp1, bp1), neg(bp1)), 2)]

\* bgjk_query whose separating-axis test is `<= 0.0`.
bgjk_query_exit_le(hull1, hull2, l) ==
  LET ap1 == support(hull1, hull2, l.sp)
  IN  [done |-> dot(ap1, l.sp) <= 0, ret |-> FALSE, l |-> [l EXCEPT !.ap = ap1]]

\* bgjk_query without the separating-axis test on the new point.
bgjk_query_no_exit(hull1, hull2, l) ==
  [done |-> FALSE, ret |-> FALSE,
   l |-> [l EXCEPT !.ap = support(hull1, hull2, l.sp)]]

\* The support query of one loop iteration and its separating-axis test.
bgjk_query(hull1, hull2, l) ==
  LET ap1 == support(hull1, hull2, l.sp)
  IN  [done |-> dot(ap1, l.sp) < 0, ret |-> FALSE, l |-> [l EXCEPT !.ap = ap1]]

\* bgjk_refine that drops the verdict of simplex and keeps looping.
bgjk_refine_no_return(l) ==
  [done |-> FALSE, ret |-> FALSE, l |-> simplex(l).out]

\* The `else if simplex(..)` of one loop iteration.
bgjk_refine(l) ==
  LET r == simplex(l)
  IN  [done |-> r.ret, ret |-> r.ret, l |-> r.out]

\* `loop { .. }` from the locals l, unrolled at most fuel times.
RECURSIVE bgjk_loop(_, _, _, _)
bgjk_loop(hull1, hull2, l, fuel) ==
  IF fuel = 0 THEN [done |-> FALSE, ret |-> FALSE, l |-> l]
  ELSE LET q == bgjk_query(hull1, hull2, l)
       IN  IF q.done THEN q
           ELSE LET r == bgjk_refine(q.l)
                IN  IF r.done THEN r
                    ELSE bgjk_loop(hull1, hull2, r.l, fuel - 1)

\* bgjk(hull1, hull2) as a function of its arguments.
bgjk(hull1, hull2) ==
  LET s == bgjk_start(hull1, hull2)
  IN  IF s.done THEN s ELSE bgjk_loop(hull1, hull2, s.l, MaxIter)

(* --------------------------- state machine ----------------------------- *)

VARIABLES hull1, hull2, ap, bp, cp, dp, sp, w, pc, ret

vars == <<hull1, hull2, ap, bp, cp, dp, sp, w, pc, ret>>

locals == Locals(ap, bp, cp, dp, sp, w)

\* Sequences over Points of length exactly n.
HullsOfLen(n) == [1..n -> Points]

\* Before the call: no arguments yet, the locals at their declarations.
Init ==
  /\ hull1 = <<>>
  /\ hull2 = <<>>
  /\ ap = default
  /\ bp = default
  /\ cp = default
  /\ dp = default
  /\ sp = ones
  /\ w = Undeclared
  /\ pc = "call"
  /\ ret = FALSE

\* bgjk is called with two hulls of at most MaxPoints points together.
Call ==
  /\ pc = "call"
  /\ \E n1 \in 0..MaxPoints : \E n2 \in 0..(MaxPoints - n1) :
        /\ hull1' \in HullsOfLen(n1)
        /\ hull2' \in HullsOfLen(n2)
  /\ pc' = "start"
  /\ UNCHANGED <<ap, bp, cp, dp, sp, w, ret>>

\* bgjk is called with the same hull of at most MaxSame points as both
\* arguments.
CallSame ==
  /\ pc = "call"
  /\ \E n \in 1..MaxSame : hull1' \in HullsOfLen(n)
  /\ hull2' = hull1'
  /\ pc' = "start"
  /\ UNCHANGED <<ap, bp, cp, dp, sp, w, ret>>

\* The hulls of the tests with integer coordinates.
Square(x, y) ==
  << <<x, y, 0>>, <<x + 1, y, 0>>, <<x, y + 1, 0>>, <<x + 1, y + 1, 0>> >>

Cube(x, y, z) ==
  << <<x, y, z>>, <<x + 1, y, z>>, <<x, y + 1, z>>, <<x + 1, y + 1, z>>,
     <<x, y, z + 1>>, <<x + 1, y, z + 1>>, <<x, y + 1, z + 1>>,
     <<x + 1, y + 1, z + 1>> >>

\* square1, with shape2 in the order the test lists it.
Square1Shape2 == << <<-2, 0, 0>>, <<-3, 0, 0>>, <<-2, 1, 0>>, <<-3, 1, 0>> >>

\* The argument pairs of square1, exact_overlap, side_by_side_squares,
\* single_point_square_overlap, single_point_shape_overlap and
\* single_line_shape_overlap.
TestCalls ==
  { <<Square(0, 0), Square1Shape2>>,
    <<Square(0, 0), Square(0, 0)>>,
    <<Square(0, 0), Square(1, 0)>>,
    <<Square(0, 0), Square(1, 1)>>,
    <<Cube(0, 0, 0), Cube(1, 1, 1)>>,
    <<Cube(0, 0, 0), Cube(1, 1, 0)>> }

\* bgjk is called as one of the tests calls it, or with the test's shapes
\* swapped.
CallTest ==
  /\ pc = "call"
  /\ \E t \in TestCalls :
        \/ hull1' = t[1] /\ hull2' = t[2]
        \/ hull1' = t[2] /\ hull2' = t[1]
  /\ pc' = "start"
  /\ UNCHANGED <<ap, bp, cp, dp, sp, w, ret>>

\* The locals and the position after a step whose outcome is r.
Becomes(r, next) ==
  /\ ap' = r.l.ap
  /\ bp' = r.l.bp
  /\ cp' = r.l.cp
  /\ dp' = r.l.dp
  /\ sp' = r.l.sp
  /\ w' = r.l.w
  /\ ret' = r.ret
  /\ pc' = IF r.done THEN "done" ELSE next
  /\ UNCHANGED <<hull1, hull2>>

\* Lines 59-70.
Start ==
  /\ pc = "start"
  /\ Becomes(bgjk_start(hull1, hull2), "loop")

\* Lines 73-75.
Query ==
  /\ pc = "loop"
  /\ Becomes(bgjk_query(hull1, hull2, locals), "simplex")

\* Lines 76-78.
Refine ==
  /\ pc = "simplex"
  /\ Becomes(bgjk_refine(locals), "loop")

Next == Call \/ CallSame \/ CallTest \/ Start \/ Query \/ Refine

Spec == Init /\ [][Next]_vars


(* ------------------------ geometry of the claims ----------------------- *)

\* The points a hull stands for: farthest treats an empty hull as the single
\* point (0,0,0).
HullPoints(h) == IF h = <<>> THEN {default} ELSE {h[i] : i \in 1..Len(h)}

\* The Minkowski difference {p - q : p in A, q in B}.
Minkowski(A, B) == {sub(p, q) : p \in HullPoints(A), q \in HullPoints(B)}

det(p, q, r) == dot(p, cross(q, r))

\* The origin lies on the closed segment [p, q], p # q.
OriginOnSegment(p, q) == cross(p, q) = default /\ dot(p, q) <= 0

\* The origin lies in the closed, non-degenerate triangle (p, q, r).
OriginInTriangle(p, q, r) ==
  LET n == cross(sub(q, p), sub(r, p))
  IN  /\ n # default
      /\ dot(n, p) = 0
      /\ dot(cross(p, q), n) >= 0
      /\ dot(cross(q, r), n) >= 0
      /\ dot(cross(r, p), n) >= 0

\* The origin lies in the closed, non-degenerate tetrahedron (p, q, r, s):
\* its four barycentric coordinates have the sign of the volume.
OriginInTetrahedron(p, q, r, s) ==
  LET v == det(sub(q, p), sub(r, p), sub(s, p))
      sg(x) == IF v > 0 THEN x >= 0 ELSE x <= 0
  IN  /\ v # 0
      /\ sg(det(q, r, s))
      /\ sg(-det(p, r, s))
      /\ sg(det(p, q, s))
      /\ sg(-det(p, q, r))

\* The origin lies in the convex hull of the finite set S (Caratheodory: it
\* then lies in a simplex of at most four affinely independent points of S).
OriginInHull(S) ==
  \/ default \in S
  \/ \E p, q \in S : OriginOnSegment(p, q)
  \/ \E p, q, r \in S : OriginInTriangle(p, q, r)
  \/ \E p \in S : \E q \in S \ {p} : \E r \in S \ {p, q} : \E s \in S \ {p, q, r} :
       OriginInTetrahedron(p, q, r, s)

\* The hulls A and B intersect (or touch).
Intersect(A, B) == OriginInHull(Minkowski(A, B))

Returned == pc = "done"

(* ------------------------------- claims -------------------------------- *)

\* C1: when bgjk returns true for two non-empty hulls, the hulls intersect:
\* the origin lies in the convex hull of their Minkowski difference.
C1_TrueMeansIntersect ==
  (Returned /\ ret /\ hull1 # <<>> /\ hull2 # <<>>) => Intersect(hull1, hull2)

\* bgjk returned true, after a width-3 step, for non-empty hulls that have no
\* listed point in common.
C1_Witness ==
  /\ Returned /\ ret /\ w = 3
  /\ hull1 # <<>> /\ hull2 # <<>>
  /\ HullPoints(hull1) \cap HullPoints(hull2) = {}

\* C2: when bgjk returns false, the direction in force is a strictly
\* separating axis of the Minkowski difference, so the hulls do not intersect.
C2_FalseMeansSeparated ==
  (Returned /\ ~ret) =>
     /\ \A m \in Minkowski(hull1, hull2) : dot(m, sp) < 0
     /\ ~Intersect(hull1, hull2)

\* bgjk returned false from inside the loop, in the tetrahedron phase.
C2_Witness == Returned /\ ~ret /\ w = 3 /\ Len(hull1) >= 2 /\ Len(hull2) >= 2

\* C3: bgjk is total: every invocation returns a boolean after finitely many
\* (at most MaxIter) iterations of the loop, so the states the loop runs
\* through from the call lie on no cycle.
C3_Terminates == pc = "start" => bgjk(hull1, hull2).done

\* The loop goes on after a width-3 step fell back to width 2: the fourth
\* point has been set and the width is 2 again.
C3_Witness == pc = "loop" /\ w = 2 /\ dp # default

\* The locals of a run on swapped arguments that mirrors the run on (A, B):
\* every support point and direction negated.
Mirrored(l) ==
  Locals(neg(l.ap), neg(l.bp), neg(l.cp), neg(l.dp), neg(l.sp), l.w)

\* C4: symmetry: bgjk(hull2, hull1) returns what bgjk(hull1, hull2) returned.
C4_Symmetric ==
  Returned => LET r == bgjk(hull2, hull1) IN r.done /\ r.ret = ret

\* bgjk returned true for non-empty hulls and the run on the swapped arguments ends with other
\* locals than the mirror image of this run's.
C4_Witness ==
  /\ Returned /\ ret /\ hull1 # <<>> /\ hull2 # <<>> /\ hull1 # hull2
  /\ bgjk(hull2, hull1).l # Mirrored(locals)

\* C5: reflexivity: bgjk(A, A) returns true for every non-empty hull A.
C5_Reflexive == (Returned /\ hull1 = hull2 /\ hull1 # <<>>) => ret

\* bgjk(A, A) returned for a hull A of four distinct points.
C5_Witness ==
  Returned /\ hull1 = hull2 /\ Len(hull1) = 4 /\ Cardinality(HullPoints(hull1)) = 4

\* The offsets hulls are translated by.
Offsets == { <<0, -1, 0>>, <<-1, 2, -3>> }

\* The hull h with every listed point translated by t.
Translated(h, t) == [i \in DOMAIN h |-> sub(h[i], neg(t))]

\* bgjk(A + t, B + t) returns what this invocation returned, for every offset.
TranslationInvariant ==
  \A t \in Offsets :
     LET r == bgjk(Translated(hull1, t), Translated(hull2, t))
     IN  r.done /\ r.ret = ret

\* C6 as stated: joint translation invariance for all hulls, empty ones
\* included.
C6_TranslationAllHulls == Returned => TranslationInvariant

\* C6 amended: joint translation invariance for all non-empty hulls.
C6_TranslationNonEmpty ==
  (Returned /\ hull1 # <<>> /\ hull2 # <<>>) => TranslationInvariant

\* bgjk returned true for two hulls of at least two points each that have no
\* listed point in common, and false for the same hulls with only the second
\* one translated.
C6_Witness ==
  /\ Returned /\ ret /\ Len(hull1) >= 2 /\ Len(hull2) >= 2
  /\ HullPoints(hull1) \cap HullPoints(hull2) = {}
  /\ \E t \in Offsets : ~bgjk(hull1, Translated(hull2, t)).ret

\* C7: empty-hull convention: bgjk([], B) returns whether the origin lies in
\* the convex hull of B (an empty B standing for the point (0,0,0) as well),
\* which is what bgjk([(0,0,0)], B) returns; bgjk([], [(1,1,1)]) is false and
\* bgjk([], [(0,0,0)]) is true.
C7_EmptyHull ==
  (Returned /\ hull1 = <<>>) =>
     /\ ret = OriginInHull(HullPoints(hull2))
     /\ LET r == bgjk(<<default>>, hull2) IN r.done /\ r.ret = ret
     /\ LET r == bgjk(<<>>, <<ones>>) IN r.done /\ ~r.ret
     /\ LET r == bgjk(<<>>, <<default>>) IN r.done /\ r.ret

\* bgjk([], B) returned true for a hull B that does not list the origin.
C7_Witness ==
  Returned /\ hull1 = <<>> /\ ret /\ hull2 # <<>> /\ default \notin HullPoints(hull2)

\* C8: touching counts as intersecting: bgjk returns true for non-empty hulls
\* that have a listed point in common.
C8_Touching ==
  (/\ Returned /\ hull1 # <<>> /\ hull2 # <<>>
   /\ HullPoints(hull1) \cap HullPoints(hull2) # {}) => ret

\* bgjk returned for two cubes whose only common listed point is one corner.
C8_Witness ==
  /\ Returned /\ Len(hull1) = 8 /\ Len(hull2) = 8
  /\ Cardinality(HullPoints(hull1) \cap HullPoints(hull2)) = 1

\* C9: for single-point hulls, bgjk([p], [q]) returns true iff p = q.
C9_SinglePoints ==
  (Returned /\ Len(hull1) = 1 /\ Len(hull2) = 1) => (ret <=> hull1[1] = hull2[1])

\* bgjk([p], [q]) returned for p # q with p - q orthogonal to (1,1,1).
C9_Witness ==
  /\ Returned /\ Len(hull1) = 1 /\ Len(hull2) = 1
  /\ hull1[1] # hull2[1]
  /\ dot(sub(hull1[1], hull2[1]), ones) = 0

\* p lies on the closed segment from q to r.
OnSegment(p, q, r) ==
  LET u == sub(p, q)
      v == sub(r, q)
  IN  IF q = r THEN p = q
      ELSE cross(u, v) = default /\ 0 <= dot(u, v) /\ dot(u, v) <= dot(v, v)

\* p lies on the line through q and r, q # r.
OnLine(p, q, r) == q # r /\ cross(sub(p, q), sub(r, q)) = default

\* C10: bgjk([q, r], [p]) returns true iff p lies on the closed segment from
\* q to r.
C10_SegmentPoint ==
  (Returned /\ Len(hull1) = 2 /\ Len(hull2) = 1) =>
     (ret <=> OnSegment(hull2[1], hull1[1], hull1[2]))

\* bgjk([q, r], [p]) returned for a point p on the line through q and r but
\* outside the segment.
C10_Witness ==
  /\ Returned /\ Len(hull1) = 2 /\ Len(hull2) = 1
  /\ OnLine(hull2[1], hull1[1], hull1[2])
  /\ ~OnSegment(hull2[1], hull1[1], hull1[2])

\* The hull h with the points at positions i and j exchanged.
Exchanged(h, i, j) ==
  [k \in DOMAIN h |-> IF k = i THEN h[j] ELSE IF k = j THEN h[i] ELSE h[k]]

\* The hulls this invocation is compared with rearranged or extended hulls
\* for: at most MaxRelated points together, or the hulls of a test.
Related ==
  \/ Len(hull1) + Len(hull2) <= MaxRelated
  \/ <<hull1, hull2>> \in TestCalls

\* C11: the ordering of the points is not important: bgjk returns the same
\* for either hull with any two of its points exchanged.  The invocations
\* range over all lists, and every permutation is a product of exchanges, so
\* this is bgjk(A', B') = bgjk(A, B) for all permutations A' of A, B' of B.
C11_OrderIrrelevant ==
  [] ((Returned /\ Related) =>
     /\ \A i, j \in DOMAIN hull1 :
           i < j => LET r == bgjk(Exchanged(hull1, i, j), hull2)
                    IN  r.done /\ r.ret = ret
     /\ \A i, j \in DOMAIN hull2 :
           i < j => LET r == bgjk(hull1, Exchanged(hull2, i, j))
                    IN  r.done /\ r.ret = ret)

\* bgjk returned true for hulls without repeated points, and exchanging two
\* points of hull1 makes farthest choose other support points: that run ends
\* with other locals.
C11_Witness ==
  /\ Returned /\ ret /\ Related
  /\ Cardinality(HullPoints(hull1)) = Len(hull1)
  /\ Cardinality(HullPoints(hull2)) = Len(hull2)
  /\ \E i, j \in DOMAIN hull1 :
        i < j /\ bgjk(Exchanged(hull1, i, j), hull2).l # locals

\* x lies in the convex hull of the listed points of h.
InHull(x, h) == OriginInHull({sub(p, x) : p \in HullPoints(h)})

\* The hull h scaled by two, so that the midpoint of two of its points has
\* integer coordinates: it is p + q for the points p, q of h.
Doubled(h) == [k \in DOMAIN h |-> sub(h[k], neg(h[k]))]

\* bgjk returns the same for the doubled hulls A, B and for A with the
\* midpoint of its points i and j appended, as first or as second argument.
MidpointIrrelevant(A, B) ==
  LET r0 == bgjk(Doubled(A), Doubled(B))
      q0 == bgjk(Doubled(B), Doubled(A))
  IN  \A i, j \in DOMAIN A :
         i < j => LET Ax == Append(Doubled(A), sub(A[i], neg(A[j])))
                      r == bgjk(Ax, Doubled(B))
                      q == bgjk(Doubled(B), Ax)
                  IN  /\ r0.done /\ r.done /\ r.ret = r0.ret
                      /\ q0.done /\ q.done /\ q.ret = q0.ret

\* C12: interior points do not affect the result: for non-empty hulls,
\* bgjk(A ++ [x], B) and bgjk(A, B ++ [x]) return what bgjk(A, B) returned,
\* for every grid point or listed point x in the convex hull of the hull it
\* is appended to (a duplicate of a listed point included), and the midpoint
\* of two listed points does not change what bgjk returns for the hulls
\* scaled by two.
C12_InteriorIrrelevant ==
  [] ((Returned /\ Related /\ hull1 # <<>> /\ hull2 # <<>>) =>
     /\ \A x \in Points \cup HullPoints(hull1) \cup HullPoints(hull2) :
           /\ InHull(x, hull1) =>
                 LET r == bgjk(Append(hull1, x), hull2) IN r.done /\ r.ret = ret
           /\ InHull(x, hull2) =>
                 LET r == bgjk(hull1, Append(hull2, x)) IN r.done /\ r.ret = ret
     /\ MidpointIrrelevant(hull1, hull2))

\* bgjk returned false for non-empty hulls, and a grid point that hull1 does
\* not list lies in the convex hull of hull1.
C12_Witness ==
  /\ Returned /\ ~ret /\ Related /\ hull1 # <<>> /\ hull2 # <<>>
  /\ \E x \in Points \ HullPoints(hull1) : InHull(x, hull1)

\* C13 as stated: at the second initial support query and at every main-loop
\* support query, a dot product of the point and the direction that is <= 0,
\* exactly 0 included, makes bgjk return false at once.
C13_ExitAtNonPositive ==
  [][ /\ (pc = "start" /\ dot(bp', neg(cp')) <= 0) => (pc' = "done" /\ ~ret')
      /\ (pc = "loop" /\ dot(ap', sp) <= 0) => (pc' = "done" /\ ~ret') ]_vars

\* C13 amended: at the second initial support query (b along -c) and at every
\* main-loop support query (a along the direction), bgjk returns false at
\* once, without a refinement step, exactly when the dot product of the
\* point and the direction is < 0; at exactly 0 it goes on.
C13_ExitBelowZero ==
  [][ /\ pc = "start" =>
            /\ dot(bp', neg(cp')) < 0 => (pc' = "done" /\ ~ret' /\ sp' = neg(cp'))
            /\ dot(bp', neg(cp')) >= 0 => pc' = "loop"
      /\ pc = "loop" =>
            /\ UNCHANGED <<bp, cp, dp, sp, w>>
            /\ dot(ap', sp) < 0 => (pc' = "done" /\ ~ret')
            /\ dot(ap', sp) >= 0 => pc' = "simplex" ]_vars

\* For non-empty hulls, a main-loop support query along a non-zero direction
\* found a point other than the origin with dot product exactly 0, and bgjk
\* went on to the refinement step.
C13_Witness ==
  /\ pc = "simplex" /\ hull1 # <<>> /\ hull2 # <<>>
  /\ sp # default /\ ap # default /\ dot(ap, sp) = 0

\* The origin lies strictly on the outer side of the face (a, p, q).
OutsideFace(a, p, q) == dot(cross(sub(p, a), sub(q, a)), neg(a)) > 0

\* The first of the faces (a,b,c), (a,c,d), (a,d,b) of the current
\* tetrahedron that the origin lies outside of, as <<p, q>>; <<>> if none.
FaceOutside ==
  IF OutsideFace(ap, bp, cp) THEN <<bp, cp>>
  ELSE IF OutsideFace(ap, cp, dp) THEN <<cp, dp>>
  ELSE IF OutsideFace(ap, dp, bp) THEN <<dp, bp>>
  ELSE <<>>

\* C14 as stated: a width-3 step that does not return the intersecting
\* verdict leaves width 2.
C14_AlwaysCollapses ==
  [][ (pc = "simplex" /\ w = 3 /\ pc' # "done") => w' = 2 ]_vars

\* C14 amended: a width-3 step that finds the origin outside a face (a,p,q)
\* does not return; it leaves width 2 with the segment (a,p) or (a,q) when
\* the origin lies beyond that edge of the face, and otherwise it keeps
\* width 3 with (b,c,d) := (a,p,q) and the face normal as direction.
C14_CollapsesOrRebases ==
  [][ (pc = "simplex" /\ w = 3 /\ FaceOutside # <<>>) =>
        LET p == FaceOutside[1]
            q == FaceOutside[2]
            ao == neg(ap)
            n == cross(sub(p, ap), sub(q, ap))
        IN  /\ pc' = "loop" /\ ~ret' /\ ap' = ap
            /\ IF dot(cross(sub(p, ap), n), ao) > 0
               THEN /\ w' = 2 /\ bp' = ap /\ cp' = p
                    /\ sp' = dcross3(sub(p, ap), ao)
               ELSE IF dot(cross(n, sub(q, ap)), ao) > 0
               THEN /\ w' = 2 /\ bp' = ap /\ cp' = q
                    /\ sp' = dcross3(sub(q, ap), ao)
               ELSE /\ w' = 3 /\ bp' = ap /\ cp' = p /\ dp' = q
                    /\ sp' = n ]_vars

\* For non-empty hulls, a width-3 step is taken that finds the origin
\* outside the face (a,c,d) or (a,d,b), does not return and leaves width 3.
C14_Witness ==
  /\ pc = "simplex" /\ w = 3 /\ hull1 # <<>> /\ hull2 # <<>>
  /\ FaceOutside \in {<<cp, dp>>, <<dp, bp>>} /\ ~OutsideFace(ap, bp, cp)
  /\ ~bgjk_refine(locals).done
  /\ bgjk_refine(locals).l.w = 3

\* The test of the width-2 step applied to the face (a, p, q): the origin
\* lies beyond the edge (a, p) within the plane of the face.
Straddles(a, p, q) ==
  dot(cross(sub(p, a), cross(sub(p, a), sub(q, a))), neg(a)) > 0

\* C15 as stated: the width-3 step returns true exactly when the test
\* dot(cross(ab,abc), ao) > 0, and the same test for (ac,ad) and (ad,ab),
\* is not positive for all three faces.
C15_TrueIffNoStraddle ==
  [][ (pc = "simplex" /\ w = 3) =>
        ((pc' = "done" /\ ret') <=>
           /\ ~Straddles(ap, bp, cp)
           /\ ~Straddles(ap, cp, dp)
           /\ ~Straddles(ap, dp, bp)) ]_vars

\* C15 amended: the width-3 step decides "origin outside face" by the sign
\* of the face normal, dot(abc, ao) > 0 with abc = cross(ab, ac), and the
\* same for (ac,ad) and (ad,ab); it returns true, leaving the locals as they
\* are, exactly when that is not positive for all three faces.
C15_TrueIffNoFaceOutside ==
  [][ (pc = "simplex" /\ w = 3) =>
        /\ (pc' = "done" /\ ret') <=>
              /\ ~OutsideFace(ap, bp, cp)
              /\ ~OutsideFace(ap, cp, dp)
              /\ ~OutsideFace(ap, dp, bp)
        /\ (pc' = "done" /\ ret') =>
              UNCHANGED <<ap, bp, cp, dp, sp, w>> ]_vars

\* For non-empty hulls without a common listed point, a width-3 step is
\* taken that returns true although the origin lies beyond the edge (a,b),
\* (a,c) or (a,d) within the plane of a face.
C15_Witness ==
  /\ pc = "simplex" /\ w = 3 /\ hull1 # <<>> /\ hull2 # <<>>
  /\ HullPoints(hull1) \cap HullPoints(hull2) = {}
  /\ bgjk_refine(locals).ret
  /\ \/ Straddles(ap, bp, cp)
     \/ Straddles(ap, cp, dp)
     \/ Straddles(ap, dp, bp)

\* The differences of two grid points: the points a, b, c a width-2 step is
\* evaluated on.
Differences == {sub(p, q) : p \in Points, q \in Points}

\* m is what the transition table of the width-2 step prescribes for the
\* simplex, direction and width l, with a = l.ap, b = l.bp, c = l.cp.
Width2Table(l, m) ==
  LET a == l.ap
      ao == neg(a)
      ab == sub(l.bp, a)
      ac == sub(l.cp, a)
      abc == cross(ab, ac)
  IN  /\ m.ap = a
      /\ IF dot(cross(ab, abc), ao) > 0
         THEN /\ m.bp = a /\ m.cp = l.bp /\ m.dp = l.dp
              /\ m.sp = dcross3(ab, ao) /\ m.w = 2
         ELSE IF dot(cross(abc, ac), ao) > 0
         THEN /\ m.bp = a /\ m.cp = l.cp /\ m.dp = l.dp
              /\ m.sp = dcross3(ac, ao) /\ m.w = 2
         ELSE IF dot(abc, ao) > 0
         THEN /\ m.bp = a /\ m.cp = l.bp /\ m.dp = l.cp
              /\ m.sp = abc /\ m.w = 3
         ELSE /\ m.bp = a /\ m.cp = l.cp /\ m.dp = l.bp
              /\ m.sp = neg(abc) /\ m.w = 3

\* C16: the width-2 step never yields a verdict and follows the transition
\* table: for all a, b, c among the differences of grid points, and in every
\* width-2 step an invocation takes.
C16_Width2Step ==
  /\ \A a, b, c \in Differences :
        LET l == Locals(a, b, c, default, ones, 2)
        IN  ~simplex(l).ret /\ Width2Table(l, simplex(l).out)
  /\ [][ (pc = "simplex" /\ w = 2) =>
           (pc' = "loop" /\ ~ret' /\ Width2Table(locals, locals')) ]_vars

\* For non-empty hulls, a width-2 step is taken in the table's last case:
\* the origin is beyond neither edge and strictly below the triangle, so
\* the step promotes with (b,d) := (a,b) and the direction -abc.
C16_Witness ==
  /\ pc = "simplex" /\ w = 2 /\ hull1 # <<>> /\ hull2 # <<>>
  /\ bgjk_refine(locals).l.w = 3
  /\ bgjk_refine(locals).l.dp = bp
  /\ dot(cross(sub(bp, ap), sub(cp, ap)), neg(ap)) < 0

\* The points a hull lists.
Listed(h) == {h[i] : i \in DOMAIN h}

\* The positions of h whose point maximizes the dot product with d.
Maximizers(h, d) ==
  {i \in DOMAIN h : \A j \in DOMAIN h : dot(h[j], d) <= dot(h[i], d)}

\* The element of h with the lowest index among those maximizing the dot
\* product with d; the zero vector for an empty h.
FirstMaximizer(h, d) ==
  IF h = <<>> THEN <<0, 0, 0>>
  ELSE LET M == Maximizers(h, d)
       IN  h[CHOOSE i \in M : \A j \in M : i <= j]

\* What C17 says of one state.
FarthestSupport ==
  /\ pc \in {"call", "start", "simplex"} =>
        /\ farthest(hull1, sp) = FirstMaximizer(hull1, sp)
        /\ farthest(hull2, neg(sp)) = FirstMaximizer(hull2, neg(sp))
  /\ pc = "simplex" =>
        /\ ap = sub(farthest(hull1, sp), farthest(hull2, neg(sp)))
        /\ \A p \in Listed(hull1) : \A q \in Listed(hull2) :
              dot(sub(p, q), sp) <= dot(ap, sp)
        /\ (hull1 # <<>> /\ hull2 # <<>>) =>
              \E p \in Listed(hull1) : \E q \in Listed(hull2) : ap = sub(p, q)

\* C17: farthest returns the element with the lowest index among those
\* maximizing the dot product with the direction, and the zero vector for an
\* empty list (here for hull1 along the direction of the support query at
\* hand and for hull2 along its opposite); the point a support query yields
\* is farthest(A,d) - farthest(B,-d), no listed difference p - q has a
\* greater dot product with d, and for non-empty hulls it is such a
\* difference.
C17_FarthestSupport == []FarthestSupport

\* A support query has been answered along a non-zero direction for which
\* two different points of hull1 are farthest, the first one of hull1 not
\* among them.
C17_Witness ==
  /\ pc = "simplex" /\ sp # default /\ hull2 # <<>>
  /\ 1 \notin Maximizers(hull1, sp)
  /\ \E i, j \in Maximizers(hull1, sp) : hull1[i] # hull1[j]

\* C18: the width is 2 or 3 in every state in which it exists (from `let mut
\* w = 2` on): it is 2 when the main loop is entered, every refinement step
\* leaves it in {2, 3}, and simplex is never called with another width, so
\* its fallback arm is never executed.
C18_WidthTwoOrThree ==
  /\ [](w # Undeclared => w \in {2, 3})
  /\ [](pc \in {"loop", "simplex"} => w \in {2, 3})
  /\ [][(pc = "start" /\ pc' = "loop") => w' = 2]_vars
  /\ [][pc = "simplex" => w' \in {2, 3}]_vars

\* For non-empty hulls, a width-2 step is dispatched after the width has
\* been 3: the fourth point is set.
C18_Witness ==
  pc = "simplex" /\ w = 2 /\ dp # default /\ hull1 # <<>> /\ hull2 # <<>>

\* C19: at the start of every main-loop iteration the direction is
\* orthogonal to the retained edge c - b and does not point away from the
\* origin as seen from b; at width 3 it is orthogonal to d - b as well, being
\* cross(c - b, d - b), the normal of the base face (b,c,d).
C19_DirectionConsistent ==
  [](pc = "loop" =>
       /\ dot(sp, sub(cp, bp)) = 0
       /\ dot(sp, neg(bp)) >= 0
       /\ w = 3 => /\ dot(sp, sub(dp, bp)) = 0
                   /\ sp = cross(sub(cp, bp), sub(dp, bp)))

\* For non-empty hulls, a main-loop iteration starts at width 3 with the
\* origin strictly on the positive side of a non-degenerate base face.
C19_Witness ==
  /\ pc = "loop" /\ w = 3 /\ hull1 # <<>> /\ hull2 # <<>>
  /\ sp # default /\ dot(sp, neg(bp)) > 0

====
